---- MODULE Spec2Model ----
(***************************************************************************)
(* Model of app.py: the /stream byte-range endpoint (Flask handler and its *)
(* gen_local body generator) and the viewer page's incremental reader      *)
(* (fetchChunk and the scroll listener of VIEW_HTML).                       *)
(*                                                                         *)
(* Bytes are integers 0..255, decoded characters are code points.  A query *)
(* parameter is the sequence of its characters, a query string is a        *)
(* function from the keys that are present to their values.                *)
(***************************************************************************)
EXTENDS Integers, Sequences, FiniteSets, TLC

(* ------------------------------ bounds -------------------------------- *)
\* longest source file, in bytes
MaxFile == 4
\* largest chunk size DEFAULT_BYTES tried (the program's is 1 MB)
MaxBytes == 3
\* bytes per read of gen_local (the program's is 64 KiB), scaled with the rest
ReadIncrement == 2

(* --------------------------- program constants ------------------------ *)
\* '\n', the line terminator fetchChunk looks for
NL == 10

\* the id under which the uploaded file is registered, and one that is not
FID == <<"f", "1">>
UNKNOWN_ID == <<"z", "z">>
\* the id under which a remote URL is registered (with the same content)
RID == <<"r", "1">>

(* ------------------------------ helpers ------------------------------- *)
Min(a, b) == IF a < b THEN a ELSE b
Max(a, b) == IF a > b THEN a ELSE b

\* s[from:] of Python, s.substring(from) of JavaScript (0-based, clamped)
Drop(s, n) == SubSeq(s, Min(n, Len(s)) + 1, Len(s))
\* s[:n] / s.substring(0, n)
Take(s, n) == SubSeq(s, 1, Min(n, Len(s)))

(* The files tried: every concatenation of the "units" newline, 'a' and the *)
(* two-byte UTF-8 character U+00E9, up to n bytes.                          *)
Units == {<<10>>, <<97>>, <<195, 169>>}

RECURSIVE UnitFiles(_)
UnitFiles(n) ==
    IF n = 0 THEN {<< >>}
    ELSE LET prev == UnitFiles(n - 1)
         IN  prev \cup {f \o u : f \in prev, u \in Units}

Files == {f \in UnitFiles(MaxFile) : Len(f) <= MaxFile}

IsAscii(bs) == \A k \in 1..Len(bs) : bs[k] < 128

(* new TextDecoder().decode(arr): UTF-8, malformed input replaced by U+FFFD *)
IsCont(b) == b \in 128..191
IsLead2(b) == b \in 194..223

RECURSIVE DecodeFrom(_, _)
DecodeFrom(bs, k) ==
    IF k > Len(bs) THEN << >>
    ELSE IF bs[k] < 128 THEN <<bs[k]>> \o DecodeFrom(bs, k + 1)
    ELSE IF IsLead2(bs[k]) /\ k < Len(bs) /\ IsCont(bs[k + 1])
         THEN <<(bs[k] - 192) * 64 + (bs[k + 1] - 128)>> \o DecodeFrom(bs, k + 2)
    ELSE <<65533>> \o DecodeFrom(bs, k + 1)

TextDecode(bs) == DecodeFrom(bs, 1)

(* slice.lastIndexOf('\n'): 0-based index of the last newline, -1 if none *)
lastIndexOfNL(s) ==
    LET hits == {k \in 1..Len(s) : s[k] = NL}
    IN  IF hits = {} THEN -1
        ELSE (CHOOSE k \in hits : \A m \in hits : m <= k) - 1

(* `${n}` of a non-negative integer: its decimal digits *)
DigitChars == <<"0", "1", "2", "3", "4", "5", "6", "7", "8", "9">>

RECURSIVE FormatInt(_)
FormatInt(n) ==
    IF n < 10 THEN <<DigitChars[n + 1]>>
    ELSE FormatInt(n \div 10) \o <<DigitChars[(n % 10) + 1]>>

(* int(s) of Python for strings of digits, signs and letters: an optional   *)
(* sign and at least one digit, else ValueError                             *)
IsDigit(c) == \E d \in 1..10 : DigitChars[d] = c
DigitVal(c) == (CHOOSE d \in 1..10 : DigitChars[d] = c) - 1

RECURSIVE DigitsVal(_)
DigitsVal(s) ==
    IF s = << >> THEN 0
    ELSE DigitsVal(SubSeq(s, 1, Len(s) - 1)) * 10 + DigitVal(s[Len(s)])

ParseInt(s) ==
    LET signed == s # << >> /\ s[1] \in {"-", "+"}
        digits == IF signed THEN Drop(s, 1) ELSE s
    IN  IF digits # << >> /\ \A k \in 1..Len(digits) : IsDigit(digits[k])
        THEN [ok |-> TRUE,
              val |-> IF signed /\ s[1] = "-" THEN 0 - DigitsVal(digits)
                      ELSE DigitsVal(digits)]
        ELSE [ok |-> FALSE, val |-> 0]

(* request.args.get(key, default) *)
ArgsGet(args, key, default) == IF key \in DOMAIN args THEN args[key] ELSE default

(* ------------------------------- state -------------------------------- *)
VARIABLES
    file,           \* the bytes of the uploaded file (never modified)
    fileExists,     \* os.path.exists(path)
    DEFAULT_BYTES,  \* the chunk size, rendered into the page as BYTES
    OVERLAP,        \* the page's OVERLAP
    pos,            \* the reader's position
    done,           \* the reader's exhausted flag
    loading,        \* the reader's fetch-in-flight flag
    viewer,         \* v.innerText, the characters appended so far
    status,         \* the text of the status line
    lastTrigger,    \* what the most recent call of fetchChunk did
    last,           \* the fetch cycle that completed most recently
    reqs            \* the /stream requests in progress, oldest first

vars == <<file, fileExists, DEFAULT_BYTES, OVERLAP, pos, done, loading, viewer,
          status, lastTrigger, last, reqs>>

readerVars == <<pos, done, loading, viewer, status, lastTrigger, last>>
configVars == <<file, DEFAULT_BYTES, OVERLAP>>

BYTES == DEFAULT_BYTES

\* the query without its WHERE clause: the first row, whatever the id
get_file_record_first(fid) == [found |-> TRUE, storage |-> "local"]

(* the record store: the one uploaded file, stored locally *)
get_file_record(fid) ==
    IF fid = FID THEN [found |-> TRUE, storage |-> "local"]
    ELSE IF fid = RID THEN [found |-> TRUE, storage |-> "remote"]
    ELSE [found |-> FALSE, storage |-> ""]

NoHeaders == [acceptRanges |-> "", rangeFirst |-> 0, rangeLast |-> 0]

NoCycle ==
    [kind |-> "none", start |-> 0, bytes |-> 0, arrLen |-> 0, code |-> 0,
     slice |-> << >>, keep |-> << >>, pos0 |-> 0, exhausted |-> FALSE]

(* a request as it arrives at the server; start and bytes are the locals of *)
(* the fetchChunk call that sent it (0 for another client)                  *)
Request(client, method, args, start, bytes) ==
    [client |-> client, method |-> method, args |-> args,
     cstart |-> start, cbytes |-> bytes,
     phase |-> "arrived", code |-> 0, aborted |-> FALSE, text |-> "",
     headers |-> NoHeaders, body |-> << >>,
     start |-> 0, nb |-> 0, remaining |-> 0, fhPos |-> 0, fhOpen |-> FALSE,
     connOpen |-> FALSE, originStatus |-> 0, originBody |-> << >>,
     originSent |-> << >>, netFailure |-> "none"]

NewRequest(client, args, start, bytes) == Request(client, "GET", args, start, bytes)

Remove(s, i) == SubSeq(s, 1, i - 1) \o SubSeq(s, i + 1, Len(s))

ReaderReqs == {i \in 1..Len(reqs) : reqs[i].client = "reader"}

InitReader ==
    /\ pos = 0
    /\ done = FALSE
    /\ loading = FALSE
    /\ viewer = << >>
    /\ status = "Scroll to load more"
    /\ lastTrigger = "none"
    /\ last = NoCycle
    /\ reqs = << >>

Init ==
    /\ file \in Files
    /\ fileExists = TRUE
    /\ DEFAULT_BYTES \in 2..MaxBytes
    /\ OVERLAP \in 1..(DEFAULT_BYTES - 1)
    /\ InitReader

(* ------------------------- the /stream handler ------------------------ *)
\* an immediate "text", code response
Reply(r, text, code) == [r EXCEPT !.phase = "complete", !.code = code, !.text = text]

\* stream(), lines 359-402: the request is answered at once, or with a
\* Response whose body gen_local has still to produce, or the handler goes on
\* to fetch from the remote origin (the registered URL is an http URL, so
\* the test of line 401 is false)
streamResult(r) ==
    LET fid == ArgsGet(r.args, "id", << >>)
        rec == get_file_record(fid)
        st == ParseInt(ArgsGet(r.args, "start", <<"0">>))
        pb == ParseInt(ArgsGet(r.args, "bytes", FormatInt(DEFAULT_BYTES)))
        nb0 == IF pb.ok THEN pb.val ELSE DEFAULT_BYTES
        nb == IF nb0 <= 0 THEN DEFAULT_BYTES ELSE nb0
        start == st.val
    IN  IF fid = << >> THEN Reply(r, "id required", 400)
        ELSE IF ~rec.found THEN Reply(r, "not found", 404)
        ELSE IF ~st.ok THEN Reply(r, "invalid start", 400)
        ELSE IF rec.storage # "local"
             THEN [r EXCEPT !.phase = "fetch", !.start = start, !.nb = nb]
        ELSE IF ~fileExists THEN Reply(r, "local file missing", 404)
        ELSE [r EXCEPT !.phase = "ready", !.code = 200,
                       !.start = start, !.nb = nb,
                       !.headers = [acceptRanges |-> "bytes",
                                    rangeFirst |-> start,
                                    rangeLast |-> start + nb - 1]]

stream(i) ==
    /\ reqs[i].phase = "arrived"
    /\ reqs' = [reqs EXCEPT ![i] = streamResult(reqs[i])]
    /\ UNCHANGED <<fileExists, configVars, readerVars>>

\* an exception out of the generator before its first chunk: the server
\* answers 500, or drops the connection
GenFailed(r, dropped) ==
    [r EXCEPT !.phase = "complete", !.fhOpen = FALSE, !.body = << >>,
              !.code = IF dropped THEN r.code ELSE 500,
              !.aborted = dropped,
              !.text = IF dropped THEN "" ELSE "Internal Server Error",
              !.headers = IF dropped THEN r.headers ELSE NoHeaders]

\* a seek past the end of the file is allowed
seekFailsPastEnd(r) == r.start < 0 \/ r.start > Len(file)

\* line 385: fh.seek(start) raises OSError for a negative offset
seekFails(r) == r.start < 0

\* gen_local, lines 384-386: open(path, 'rb'), fh.seek(start), remaining = nb
gen_local_open(i) ==
    /\ reqs[i].phase = "ready"
    /\ reqs[i].method = "GET"
    /\ IF ~fileExists \/ seekFails(reqs[i])
       THEN \E dropped \in BOOLEAN :
                reqs' = [reqs EXCEPT ![i] = GenFailed(reqs[i], dropped)]
       ELSE reqs' = [reqs EXCEPT ![i] = [reqs[i] EXCEPT
                        !.phase = "open", !.fhOpen = TRUE,
                        !.fhPos = reqs[i].start, !.remaining = reqs[i].nb]]
    /\ UNCHANGED <<fileExists, configVars, readerVars>>

\* one read position shared by the handles of all requests
fhReadShared(r, n) == SubSeq(file, reqs[1].fhPos + 1, Min(reqs[1].fhPos + n, Len(file)))

\* fh.read(n) at the handle's position
fhRead(r, n) == SubSeq(file, r.fhPos + 1, Min(r.fhPos + n, Len(file)))

\* every read asks for a full increment, whatever remains of the window
gen_local_next_full_reads(r) ==
    LET chunk == fhRead(r, ReadIncrement)
    IN  IF r.remaining > 0 /\ chunk # << >>
        THEN [r EXCEPT !.body = r.body \o chunk,
                       !.remaining = r.remaining - Len(chunk),
                       !.fhPos = r.fhPos + Len(chunk)]
        ELSE [r EXCEPT !.phase = "complete", !.fhOpen = FALSE]

\* one turn of the generator, lines 387-392: the loop test, a read, and
\* either the yield of the chunk or the end of the body (the file is closed)
gen_local_next(r) ==
    LET chunk == fhRead(r, Min(ReadIncrement, r.remaining))
    IN  IF r.remaining > 0 /\ chunk # << >>
        THEN [r EXCEPT !.body = r.body \o chunk,
                       !.remaining = r.remaining - Len(chunk),
                       !.fhPos = r.fhPos + Len(chunk)]
        ELSE [r EXCEPT !.phase = "complete", !.fhOpen = FALSE]

gen_local_step(i) ==
    /\ reqs[i].phase = "open"
    /\ reqs' = [reqs EXCEPT ![i] = gen_local_next(reqs[i])]
    /\ UNCHANGED <<fileExists, configVars, readerVars>>

(* ----------------------- the remote origin --------------------------- *)
\* the body of an origin's error answer
ErrorBody == <<69>>

\* what requests.get can come back with for Range: bytes=start-end on the
\* registered URL: no answer at all, the whole content with 200 (the Range
\* header ignored), the range with 206 or 416 where there is none, or an
\* error answer
OriginAnswers(r) ==
    {[kind |-> "transport", status |-> 0, body |-> << >>],
     [kind |-> "answer", status |-> 200, body |-> file],
     [kind |-> "answer", status |-> 404, body |-> ErrorBody],
     [kind |-> "answer", status |-> 502, body |-> ErrorBody]}
    \cup (IF r.start < Len(file)
          THEN {[kind |-> "answer", status |-> 206,
                 body |-> SubSeq(file, r.start + 1, Min(r.start + r.nb, Len(file)))]}
          ELSE {[kind |-> "answer", status |-> 416, body |-> << >>]})

\* only the origin's server errors are passed on as errors
relayedBelow500(code) == code < 500

\* line 410: the origin's answer is relayed as a success
relayed(code) == code \in {200, 206}

\* lines 404-411 and 422-427: requests.get(..., stream=True), and what the
\* handler returns for the answer o; readOk: r.content could be read
fetchResult(r, o, readOk, dropped) ==
    IF o.kind = "transport"
    THEN [Reply(r, "fetch error", 502) EXCEPT !.netFailure = "connect"]
    ELSE IF ~relayed(o.status)
    THEN IF readOk
         THEN [r EXCEPT !.phase = "complete", !.code = o.status,
                        !.body = o.body, !.originStatus = o.status,
                        !.originSent = o.body]
         ELSE [GenFailed(r, dropped) EXCEPT !.originStatus = o.status,
                                           !.originSent = o.body,
                                           !.netFailure = "relay"]
    ELSE [r EXCEPT !.phase = "rready", !.code = 200, !.connOpen = TRUE,
                   !.originStatus = o.status, !.originBody = o.body,
                   !.originSent = o.body,
                   !.headers = [acceptRanges |-> "bytes",
                                rangeFirst |-> r.start,
                                rangeLast |-> IF o.status = 206
                                              THEN r.start + Len(o.body) - 1
                                              ELSE r.start + r.nb - 1]]

stream_fetch(i) ==
    /\ reqs[i].phase = "fetch"
    /\ \E o \in OriginAnswers(reqs[i]) : \E readOk \in BOOLEAN : \E dropped \in BOOLEAN :
           reqs' = [reqs EXCEPT ![i] = fetchResult(reqs[i], o, readOk, dropped)]
    /\ UNCHANGED <<fileExists, configVars, readerVars>>

\* one turn of generate(), lines 414-420: the next chunk of the origin's
\* body is yielded, or the body has ended and finally closes r
generate_next(r) ==
    IF r.originBody # << >>
    THEN [r EXCEPT !.phase = "relay",
                   !.body = r.body \o Take(r.originBody, ReadIncrement),
                   !.originBody = Drop(r.originBody, ReadIncrement)]
    ELSE [r EXCEPT !.phase = "complete", !.connOpen = FALSE]

generate_step(i) ==
    /\ reqs[i].phase \in {"rready", "relay"}
    /\ reqs[i].method = "GET"
    /\ reqs' = [reqs EXCEPT ![i] = generate_next(reqs[i])]
    /\ UNCHANGED <<fileExists, configVars, readerVars>>

\* the connection to the origin breaks while iter_content waits for more of
\* the body: the exception leaves generate() through finally.  Before the
\* first chunk the server can still answer 500; after it the status 200 and
\* the chunks are out, and the client sees the body end (truncated) or break
generate_fail(i) ==
    /\ reqs[i].phase \in {"rready", "relay"}
    /\ reqs[i].method = "GET"
    /\ reqs[i].originBody # << >>
    /\ \E dropped \in BOOLEAN :
           reqs' = [reqs EXCEPT ![i] =
               IF reqs[i].body = << >>
               THEN [GenFailed(reqs[i], dropped) EXCEPT !.connOpen = FALSE,
                                                      !.netFailure = "relay"]
               ELSE [reqs[i] EXCEPT !.phase = "complete", !.connOpen = FALSE,
                                    !.aborted = dropped, !.netFailure = "relay"]]
    /\ UNCHANGED <<fileExists, configVars, readerVars>>

\* a HEAD request (the route answers it like GET): the server sends the
\* headers and closes the body generator without ever starting it, so no
\* statement of the generator runs, not even its finally
headResponse(i) ==
    /\ reqs[i].phase \in {"ready", "rready"}
    /\ reqs[i].method = "HEAD"
    /\ reqs' = [reqs EXCEPT ![i] = [reqs[i] EXCEPT !.phase = "complete"]]
    /\ UNCHANGED <<fileExists, configVars, readerVars>>

\* the client goes away while the body is streamed: the server closes the
\* suspended generator, which leaves its with block or runs its finally
clientDisconnect(i) ==
    /\ reqs[i].phase \in {"open", "relay"}
    /\ reqs' = [reqs EXCEPT ![i] = [reqs[i] EXCEPT
                    !.phase = "complete", !.aborted = TRUE,
                    !.fhOpen = FALSE, !.connOpen = FALSE]]
    /\ UNCHANGED <<fileExists, configVars, readerVars>>

\* the uploaded file is removed from disk behind the program's back
DeleteFile ==
    /\ fileExists
    /\ fileExists' = FALSE
    /\ UNCHANGED <<configVars, readerVars, reqs>>

(* ----------------------- the reader (VIEW_HTML) ----------------------- *)
\* the guard without the in-flight flag
fetchGuardDoneOnly == done

\* line 256: a call of fetchChunk returns at once
fetchGuard == done \/ loading

\* lines 258-259: the window of the next request
windowStart == Max(0, pos - (IF pos > 0 THEN OVERLAP ELSE 0))
windowBytes == BYTES + (IF pos > 0 THEN OVERLAP ELSE 0)

\* line 260: the query string of the request
streamUrl(start, bytes) ==
    ("id" :> FID) @@ ("start" :> FormatInt(start)) @@ ("bytes" :> FormatInt(bytes))

\* a call of fetchChunk (the initial load, or the scroll listener near the
\* bottom), up to its first await: lines 255-262
fetchChunk ==
    IF fetchGuard
    THEN /\ lastTrigger' = "dropped"
         /\ UNCHANGED <<fileExists, configVars, pos, done, loading, viewer,
                        status, last, reqs>>
    ELSE /\ loading' = TRUE
         /\ lastTrigger' = "issued"
         /\ reqs' = Append(reqs, NewRequest("reader",
                                            streamUrl(windowStart, windowBytes),
                                            windowStart, windowBytes))
         /\ UNCHANGED <<fileExists, configVars, pos, done, viewer, status, last>>

\* res.ok
resOk(r) == r.code \in 200..299

\* line 276: the decoded text without the re-fetched overlap
sliceOf(text) == IF pos > 0 THEN Drop(text, OVERLAP) ELSE text

\* a slice without line terminator is held back whole
keepOfHoldBack(slice) ==
    LET lastNL == lastIndexOfNL(slice)
    IN  IF lastNL >= 0 THEN Take(slice, lastNL + 1) ELSE << >>

\* the slice up to, not including, its last line terminator
keepOfExclusive(slice) ==
    LET lastNL == lastIndexOfNL(slice)
    IN  IF lastNL >= 0 THEN Take(slice, lastNL) ELSE slice

\* lines 277-278: the part of the slice that is appended
keepOf(slice) ==
    LET lastNL == lastIndexOfNL(slice)
    IN  IF lastNL >= 0 THEN Take(slice, lastNL + 1) ELSE slice

\* a response of exactly the requested length counts as short too
isShortOrEqual(arrLen, bytes) == arrLen <= bytes

\* line 281: the test that marks the cursor exhausted
isShort(arrLen, bytes) == arrLen < bytes

\* what the rest of fetchChunk does with the outcome of request r
cycleOf(r) ==
    LET slice == sliceOf(TextDecode(r.body))
        kind == IF r.aborted THEN "thrown"
                ELSE IF ~resOk(r) THEN "error"
                ELSE IF Len(r.body) = 0 THEN "empty"
                ELSE "data"
    IN  [kind |-> kind, start |-> r.cstart, bytes |-> r.cbytes,
         arrLen |-> IF kind \in {"empty", "data"} THEN Len(r.body) ELSE 0,
         code |-> IF r.aborted THEN 0 ELSE r.code,
         slice |-> IF kind = "data" THEN slice ELSE << >>,
         keep |-> IF kind = "data" THEN keepOf(slice) ELSE << >>,
         pos0 |-> pos,
         exhausted |-> \/ kind = "empty"
                       \/ kind = "data" /\ isShort(Len(r.body), r.cbytes)]

\* the flag stays set after a non-success status
loadingAfterError(c) == c.kind = "error"

\* lines 265, 272 and 285: the in-flight flag at the end of the cycle
loadingAfter(c) == FALSE

\* the rest of fetchChunk once the response (or the failure) of its request
\* is there: lines 262-285
fetchChunkResume(i) ==
    /\ reqs[i].client = "reader"
    /\ reqs[i].phase = "complete"
    /\ LET c == cycleOf(reqs[i])
       IN  /\ last' = c
           /\ viewer' = viewer \o c.keep
           /\ pos' = pos + Len(c.keep)
           /\ done' = (done \/ c.exhausted)
           /\ status' = CASE c.kind = "thrown" -> "Stream network error"
                          [] c.kind = "error" -> "Stream error"
                          [] c.exhausted -> "End of file."
                          [] OTHER -> status
           /\ loading' = loadingAfter(c)
    /\ reqs' = Remove(reqs, i)
    /\ UNCHANGED <<fileExists, configVars, lastTrigger>>

(* ------------------- another client of /stream ------------------------ *)
OptArg(key, vals) == {<< >>} \cup {key :> v : v \in vals}

IdValues == {FID, UNKNOWN_ID}
StartValues == {<<"x">>, <<"-", "1">>} \cup {FormatInt(n) : n \in 0..(MaxFile + 1)}
BytesValues == {<<"x">>, <<"-", "1">>, <<"0">>} \cup {FormatInt(n) : n \in 1..MaxBytes}

DirectArgs ==
    {a @@ b @@ c : a \in OptArg("id", IdValues),
                   b \in OptArg("start", StartValues),
                   c \in OptArg("bytes", BytesValues)}

\* a client other than the page sends one request at a time, with any query
directRequest ==
    /\ \A i \in 1..Len(reqs) : reqs[i].client # "direct"
    /\ \E args \in DirectArgs : reqs' = Append(reqs, NewRequest("direct", args, 0, 0))
    /\ UNCHANGED <<fileExists, configVars, readerVars>>

directReceive(i) ==
    /\ reqs[i].client = "direct"
    /\ reqs[i].phase = "complete"
    /\ reqs' = Remove(reqs, i)
    /\ UNCHANGED <<fileExists, configVars, readerVars>>

\* well-formed GET and HEAD requests for the local and the remote record
RemoteArgs ==
    {("id" :> id) @@ ("start" :> FormatInt(s)) @@ ("bytes" :> FormatInt(n)) :
        id \in {FID, RID}, s \in 0..MaxFile, n \in 1..MaxBytes}

remoteRequest ==
    /\ \A i \in 1..Len(reqs) : reqs[i].client # "direct"
    /\ \E args \in RemoteArgs : \E method \in {"GET", "HEAD"} :
           reqs' = Append(reqs, Request("direct", method, args, 0, 0))
    /\ UNCHANGED <<fileExists, configVars, readerVars>>

\* two clients ask for windows of the local and the remote record at the same
\* time; each keeps its last response until it sends its next request
PairClients == {"direct", "other"}

PairArgs ==
    {("id" :> id) @@ ("start" :> FormatInt(s)) @@ ("bytes" :> FormatInt(MaxBytes)) :
        id \in {FID, RID}, s \in 0..1}

Others(c) == SelectSeq(reqs, LAMBDA r : r.client # c)

pairRequest(c) ==
    /\ \A i \in 1..Len(reqs) : reqs[i].client = c => reqs[i].phase = "complete"
    /\ \E args \in PairArgs :
           reqs' = Append(Others(c), Request(c, "GET", args, 0, 0))
    /\ UNCHANGED <<fileExists, configVars, readerVars>>

(* --------------------------- specifications --------------------------- *)
\* the page and the server
Next ==
    \/ fetchChunk
    \/ \E i \in 1..Len(reqs) : fetchChunkResume(i)
    \/ \E i \in 1..Len(reqs) : stream(i)
    \/ \E i \in 1..Len(reqs) : gen_local_open(i)
    \/ \E i \in 1..Len(reqs) : gen_local_step(i)
    \/ DeleteFile

Spec == Init /\ [][Next]_vars

\* the server and a client that sends arbitrary queries
InitStream ==
    /\ file \in Files
    /\ fileExists = TRUE
    /\ DEFAULT_BYTES \in 2..MaxBytes
    /\ OVERLAP = 1
    /\ InitReader

NextStream ==
    \/ directRequest
    \/ \E i \in 1..Len(reqs) : directReceive(i)
    \/ \E i \in 1..Len(reqs) : stream(i)
    \/ \E i \in 1..Len(reqs) : gen_local_open(i)
    \/ \E i \in 1..Len(reqs) : gen_local_step(i)
    \/ DeleteFile

\* the page and the server, where every call, request and generator that can
\* take a step eventually does, and the page is scrolled again and again
Fairness ==
    /\ WF_vars(fetchChunk)
    /\ WF_vars(\E i \in 1..Len(reqs) : fetchChunkResume(i))
    /\ WF_vars(\E i \in 1..Len(reqs) : stream(i))
    /\ WF_vars(\E i \in 1..Len(reqs) : gen_local_open(i))
    /\ WF_vars(\E i \in 1..Len(reqs) : gen_local_step(i))

SpecFair == Init /\ [][Next]_vars /\ Fairness

SpecStream == InitStream /\ [][NextStream]_vars

\* the server, the remote origin and a client of both records
InitRemote ==
    /\ file \in Files
    /\ fileExists = TRUE
    /\ DEFAULT_BYTES = MaxBytes
    /\ OVERLAP = 1
    /\ InitReader

NextRemote ==
    \/ remoteRequest
    \/ \E i \in 1..Len(reqs) : directReceive(i)
    \/ \E i \in 1..Len(reqs) : stream(i)
    \/ \E i \in 1..Len(reqs) : gen_local_open(i)
    \/ \E i \in 1..Len(reqs) : gen_local_step(i)
    \/ \E i \in 1..Len(reqs) : stream_fetch(i)
    \/ \E i \in 1..Len(reqs) : generate_step(i)
    \/ \E i \in 1..Len(reqs) : generate_fail(i)
    \/ \E i \in 1..Len(reqs) : headResponse(i)
    \/ \E i \in 1..Len(reqs) : clientDisconnect(i)

SpecRemote == InitRemote /\ [][NextRemote]_vars

\* the server and two clients whose requests run at the same time
NextPair ==
    \/ \E c \in PairClients : pairRequest(c)
    \/ \E i \in 1..Len(reqs) : stream(i)
    \/ \E i \in 1..Len(reqs) : gen_local_open(i)
    \/ \E i \in 1..Len(reqs) : gen_local_step(i)
    \/ \E i \in 1..Len(reqs) : stream_fetch(i)
    \/ \E i \in 1..Len(reqs) : generate_step(i)

SpecPair == InitRemote /\ [][NextPair]_vars

(* ------------------------------ claims -------------------------------- *)
\* requests whose response is complete and not yet taken by the client
Complete == {i \in 1..Len(reqs) : reqs[i].phase = "complete"}

\* the request names the uploaded file, which is still on disk
OnLocalFile(r) == ArgsGet(r.args, "id", << >>) = FID /\ fileExists

\* the query carries start = s / bytes = n in decimal
HasStart(r, s) == "start" \in DOMAIN r.args /\ r.args["start"] = FormatInt(s)
HasBytes(r, n) == "bytes" \in DOMAIN r.args /\ r.args["bytes"] = FormatInt(n)

\* the bytes of the file at offsets [s, s + min(n, max(0, S - s)))
Window(s, n) == SubSeq(file, s + 1, s + Min(n, Max(0, Len(file) - s)))

\* C1: for a local file of size S and a request with start >= 0 and
\* bytes > 0, the response is a 200 whose body is exactly the file's bytes
\* at [start, start + min(bytes, max(0, S - start))).
C1_WindowExact ==
    \A i \in Complete : \A s \in 0..(MaxFile + 1) : \A n \in 1..MaxBytes :
        (OnLocalFile(reqs[i]) /\ HasStart(reqs[i], s) /\ HasBytes(reqs[i], n))
        => /\ reqs[i].code = 200
           /\ ~reqs[i].aborted
           /\ reqs[i].body = Window(s, n)

\* a window that starts inside the file, is cut short by its end and needed
\* more than one read
C1_Witness ==
    \E i \in Complete : \E s \in 1..MaxFile : \E n \in 1..MaxBytes :
        /\ OnLocalFile(reqs[i]) /\ HasStart(reqs[i], s) /\ HasBytes(reqs[i], n)
        /\ reqs[i].body = Window(s, n)
        /\ Len(reqs[i].body) < n
        /\ Len(reqs[i].body) >= ReadIncrement

\* C2 as claimed, for files of ASCII text: the visible buffer is the source
\* from offset 0 up to position, without gap or duplicate.
C2_PrefixOfSource == IsAscii(file) => viewer = TextDecode(Take(file, pos))

\* C3 as claimed, for files of ASCII text and a buffer that has no gap so
\* far: when the cursor is exhausted the buffer is the complete file.
C3_CompleteWhenExhausted ==
    (IsAscii(file) /\ viewer = TextDecode(Take(file, pos)) /\ done)
    => viewer = TextDecode(file)

HasNL(s) == \E k \in 1..Len(s) : s[k] = NL
EndsWithNL(s) == s # << >> /\ s[Len(s)] = NL

\* C4 as claimed, for files of ASCII text: a segment that does not end with
\* a line terminator is appended only at the end of the source.
C4_LineOrEndOfStream ==
    (IsAscii(file) /\ last.kind = "data" /\ last.keep # << >> /\ ~EndsWithNL(last.keep))
    => pos = Len(file)

\* C4, amended: every appended segment ends with a line terminator, except
\* that a scanned text without any line terminator is appended whole,
\* whether or not the source ends there.
C4_LineOrWholeSlice ==
    last.kind = "data"
    => IF HasNL(last.slice)
       THEN /\ EndsWithNL(last.keep)
            /\ last.keep = Take(last.slice, Len(last.keep))
            /\ ~HasNL(Drop(last.slice, Len(last.keep)))
       ELSE last.keep = last.slice

\* a full chunk without line terminator was flushed in mid-stream
C4_Witness ==
    /\ last.kind = "data" /\ ~last.exhausted /\ last.pos0 > 0
    /\ last.keep # << >> /\ ~HasNL(last.slice)
    /\ pos < Len(file)

\* C5: at most one request of the reader is in flight, and while one is in
\* flight or the cursor is exhausted no step issues a request, and position
\* and buffer change only when the outstanding request is taken.
C5_SingleFlight ==
    /\ [](Cardinality(ReaderReqs) <= 1)
    /\ [][(done \/ loading)
          => /\ Cardinality(ReaderReqs') <= Cardinality(ReaderReqs)
             /\ (pos' # pos \/ viewer' # viewer)
                => Cardinality(ReaderReqs') < Cardinality(ReaderReqs)]_vars

\* a trigger was dropped while a request was in flight, after a first cycle
C5_Witness ==
    lastTrigger = "dropped" /\ loading /\ Cardinality(ReaderReqs) = 1 /\ pos > 0

\* C6: the cursor is exhausted exactly when the last response read was
\* shorter than requested, and then no request is in flight or issued.
C6_ExhaustedIffShort ==
    /\ done <=> (last.kind \in {"data", "empty"} /\ last.arrLen < last.bytes)
    /\ done => (ReaderReqs = {} /\ ~loading)

\* a non-empty short response exhausted the cursor, and a later trigger
\* was dropped
C6_Witness ==
    /\ done /\ last.kind = "data" /\ last.arrLen < last.bytes /\ last.pos0 > 0
    /\ lastTrigger = "dropped"

\* C7 as claimed: after a non-success response no request is issued again.
C7_NoRetryAfterError == last.kind = "error" => (ReaderReqs = {} /\ ~loading)

\* C8: a request on a local file whose start is at or beyond the end of the
\* file is answered 200 with an empty body, whatever its bytes parameter.
C8_EmptyAtEnd ==
    \A i \in Complete : \A s \in 0..(MaxFile + 1) :
        (OnLocalFile(reqs[i]) /\ HasStart(reqs[i], s) /\ s >= Len(file))
        => /\ reqs[i].code = 200
           /\ ~reqs[i].aborted
           /\ reqs[i].body = << >>

\* a start strictly beyond the end of a non-empty file
C8_Witness ==
    \E i \in Complete : \E s \in 0..(MaxFile + 1) :
        /\ OnLocalFile(reqs[i]) /\ HasStart(reqs[i], s)
        /\ Len(file) > 0 /\ s > Len(file)
        /\ reqs[i].code = 200 /\ reqs[i].body = << >>

\* C9 as claimed: a successful response with a body declares the range
\* start .. start + returnedLength - 1 and Accept-Ranges: bytes.
C9_ContentRangeOfBody ==
    \A i \in Complete : \A s \in 0..(MaxFile + 1) :
        (HasStart(reqs[i], s) /\ reqs[i].code = 200 /\ ~reqs[i].aborted
            /\ reqs[i].body # << >>)
        => /\ reqs[i].headers.acceptRanges = "bytes"
           /\ reqs[i].headers.rangeFirst = s
           /\ reqs[i].headers.rangeLast = s + Len(reqs[i].body) - 1

\* the query's start is no integer or negative, or its bytes is no integer
\* or not positive
Malformed(args) ==
    \/ "start" \in DOMAIN args /\ args["start"] \in {<<"x">>, <<"-", "1">>}
    \/ "bytes" \in DOMAIN args /\ args["bytes"] \in {<<"x">>, <<"-", "1">>, <<"0">>}

\* C10 as claimed: a malformed start or bytes is answered 400, without any
\* byte of the file.
C10_MalformedIs400 ==
    \A i \in Complete :
        (OnLocalFile(reqs[i]) /\ Malformed(reqs[i].args))
        => (reqs[i].code = 400 /\ ~reqs[i].aborted /\ reqs[i].body = << >>)

\* the request names an id that is not in the record store
OnUnknownId(r) == ArgsGet(r.args, "id", << >>) = UNKNOWN_ID

\* C11: a request for an id that is not in the record store is answered 404
\* with no byte of any file, whatever its other parameters, and no file and
\* no connection to an origin is opened for it at any moment.
C11_UnknownIs404 ==
    \A i \in 1..Len(reqs) :
        OnUnknownId(reqs[i])
        => /\ reqs[i].phase \in {"arrived", "complete"}
           /\ ~reqs[i].fhOpen
           /\ ~reqs[i].connOpen
           /\ reqs[i].body = << >>
           /\ reqs[i].phase = "complete"
              => (reqs[i].code = 404 /\ ~reqs[i].aborted)

\* an unknown id with a malformed start, on a file that is there
C11_Witness ==
    \E i \in Complete :
        /\ OnUnknownId(reqs[i]) /\ reqs[i].code = 404
        /\ "start" \in DOMAIN reqs[i].args /\ reqs[i].args["start"] = <<"x">>
        /\ fileExists /\ Len(file) > 0

\* C12 as claimed: a request for the local file with a well-formed start is
\* answered with a complete 200 or with a source-unavailable error (404 or
\* 502), also when the file is deleted under it: never with the 500 of an
\* unhandled exception or a dropped connection.
C12_DeletedIsUnavailable ==
    \A i \in Complete : \A s \in 0..(MaxFile + 1) :
        (ArgsGet(reqs[i].args, "id", << >>) = FID /\ HasStart(reqs[i], s))
        => /\ ~reqs[i].aborted
           /\ reqs[i].code \in {200, 404, 502}

\* a GET request for the remote record
OnRemote(r) == ArgsGet(r.args, "id", << >>) = RID /\ r.method = "GET"

\* C13 as claimed: when the origin ignores the Range header of a window that
\* does not start at 0 and answers 200 with the whole content, /stream does
\* not answer with a success.
C13_IgnoredRangeIsError ==
    \A i \in Complete : \A s \in 1..MaxFile :
        (OnRemote(reqs[i]) /\ HasStart(reqs[i], s) /\ reqs[i].originStatus = 200
            /\ reqs[i].originSent # << >>
            /\ reqs[i].netFailure = "none" /\ ~reqs[i].aborted)
        => ~resOk(reqs[i])

\* C14: when the origin answers with a status other than 200 and 206,
\* /stream answers with that status and the origin's body, not with the
\* message of a transport failure.
C14_OriginErrorPassedOn ==
    \A i \in Complete :
        (OnRemote(reqs[i]) /\ reqs[i].originStatus \notin {0, 200, 206}
            /\ reqs[i].netFailure = "none")
        => /\ reqs[i].code = reqs[i].originStatus
           /\ reqs[i].body = reqs[i].originSent
           /\ reqs[i].text = ""
           /\ ~reqs[i].aborted

\* the origin itself answered 502, with a body
C14_Witness ==
    \E i \in Complete :
        /\ OnRemote(reqs[i]) /\ reqs[i].originStatus = 502
        /\ reqs[i].netFailure = "none"
        /\ reqs[i].code = 502 /\ reqs[i].body = ErrorBody

\* C15 as claimed (its second half): after a network failure towards the
\* origin, the caller has no body bytes under a success status.
C15_NoPartialBody ==
    \A i \in Complete :
        reqs[i].netFailure # "none" => ~(resOk(reqs[i]) /\ reqs[i].body # << >>)

\* C17 as claimed: no request ends with its file handle or its connection to
\* the origin still open.
C17_ReleasedAtEnd ==
    \A i \in Complete : ~reqs[i].fhOpen /\ ~reqs[i].connOpen

\* a request answered in full: no failure on the way, no dropped connection
Served(r) == r.phase = "complete" /\ ~r.aborted /\ r.netFailure = "none"

\* C16: two requests with the same id, start and bytes, answered in full
\* from the unmodified source (for the remote record: with the same status
\* of the origin), have the same status and the same bytes, whatever the
\* other client's requests did in between or at the same time.
C16_SameWindowSameBytes ==
    \A i, j \in 1..Len(reqs) :
        (Served(reqs[i]) /\ Served(reqs[j]) /\ reqs[i].args = reqs[j].args
            /\ reqs[i].originStatus = reqs[j].originStatus)
        => (reqs[i].code = reqs[j].code /\ reqs[i].body = reqs[j].body)

\* two answered requests for the same window of the local file, with bytes
C16_Witness ==
    \E i, j \in 1..Len(reqs) :
        /\ i # j /\ Served(reqs[i]) /\ Served(reqs[j])
        /\ reqs[i].args = reqs[j].args
        /\ OnLocalFile(reqs[i]) /\ resOk(reqs[i]) /\ Len(reqs[i].body) >= 2

\* C18 as claimed: the request of a cycle after the first (position > 0)
\* starts at position - OVERLAP and asks for chunkSize + OVERLAP bytes; the
\* request of the first cycle starts at 0 and asks for chunkSize bytes.
C18_WindowOfCycle ==
    \A i \in ReaderReqs :
        IF pos > 0
        THEN reqs[i].cstart = pos - OVERLAP /\ reqs[i].cbytes = BYTES + OVERLAP
        ELSE reqs[i].cstart = 0 /\ reqs[i].cbytes = BYTES

\* C19: position never decreases; a cycle that appended data and did not
\* mark the cursor exhausted has moved position forward, and when its slice
\* had no line terminator the whole slice was appended; with the source in
\* place, repeated triggers exhaust the cursor.
C19_NeverStalls ==
    /\ [][/\ pos' >= pos
          /\ (loading /\ ~loading' /\ last'.kind = "data" /\ ~last'.exhausted)
             => /\ pos' > pos
                /\ ~HasNL(last'.slice) => viewer' = viewer \o last'.slice]_vars
    /\ <>(done \/ ~fileExists)

\* a full chunk without line terminator went into the buffer whole
C19_Witness ==
    /\ ~loading /\ last.kind = "data" /\ ~last.exhausted
    /\ ~HasNL(last.slice) /\ last.slice # << >>
    /\ pos = last.pos0 + Len(last.slice)

\* C20: the in-flight flag is set exactly while a request of the page is
\* outstanding, whatever the outcome of the cycle, and a cycle in flight
\* always ends.
C20_LoadingCleared ==
    /\ [](loading <=> ReaderReqs # {})
    /\ (loading ~> ~loading)

\* the fetch was rejected (dropped connection) and the flag is clear again
C20_Witness ==
    /\ last.kind = "thrown" /\ ~loading /\ ~done /\ ReaderReqs = {}

====
